---- MODULE Spec2Model ----
(***************************************************************************)
(* A model of sitegen's build pipeline (src/sitegen/build.py) as driven by *)
(* the two entry points of src/sitegen/__init__.py, build_test and         *)
(* build_production.                                                       *)
(*                                                                         *)
(* Paths are sequences of path components (pathlib's Path.parts), file     *)
(* names are strings, and an Optional value is a sequence of length 0      *)
(* (Python's None) or 1.  The output tree is the function fs from file     *)
(* paths to what was written there, plus the set dirs of directories.      *)
(***************************************************************************)
EXTENDS Integers, Sequences, FiniteSets, TLC

\* ------------------------------------------------------------- bounds

\* The most post descriptors glob finds in the posts source directory.
MaxPosts == 2

\* The most project descriptors glob finds in the projects source directory.
MaxProjs == 2

\* ------------------------------------------------- Optional, pathlib

None == << >>

Some(x) == << x >>

\* a.joinpath(b, c): relative segments are appended.
joinpath3(a, b, c) == a \o b \o c

joinpath2(a, b) == a \o b

\* Path(name).stem for a file name kept as [stem, suffix].
stem(file) == file.stem

\* ------------------------------------------- module-level directories

BUILD_DIR == << "site_out" >>

SRC_DIR == << "site_src" >>

STATIC_DIR == << "site_src", "static" >>

POSTS_DIR == << "blog_posts" >>

PROJS_DIR == << "projects" >>

POST_BUILD_DIR == BUILD_DIR \o << "posts" >>

PROJS_BUILD_DIR == BUILD_DIR \o << "projects" >>

\* The two entry points and the directories each hands to the build.
Modes == { "test", "production" }

test_build_dir == << "tests", "site" >>

test_src_dir == << "tests", "src" >>

site_build_dir(m) == IF m = "test" THEN test_build_dir ELSE BUILD_DIR

site_src_dir(m) == IF m = "test" THEN test_src_dir ELSE SRC_DIR

post_src_dir(m) == IF m = "test" THEN << "tests", "test_posts" >> ELSE POSTS_DIR

post_build_dir(m) == IF m = "test" THEN << "posts" >> ELSE POST_BUILD_DIR

projects_src_dir(m) == IF m = "test" THEN << "tests", "test_projects" >> ELSE PROJS_DIR

projects_build_dir(m) == IF m = "test" THEN << "projects" >> ELSE PROJS_BUILD_DIR

\* ------------------------------------------------ descriptors (JSON)

File(s, x) == [stem |-> s, suffix |-> x]

PostJson(dir, file, fmt, static, title, authors, d, m, y, desc, projects, tags) ==
    [file_path |-> file, post_dir |-> dir, format |-> fmt, static_dir |-> static,
     title |-> title, authors |-> authors, day |-> d, month |-> m, year |-> y,
     description |-> desc, thumbnail |-> << "static", "thumb.png" >>,
     projects |-> projects, tags |-> tags]

\* The post.json files a posts source directory may hold.  Two share a
\* title, three share a date, `projects` is null, empty, one and two names,
\* `static_dir` is null and set, one lists a tag twice, three cannot be
\* built (an unknown format, no authors, and a date that is not a calendar
\* date), and three carry a tag named like a page of the site (projects,
\* index, blog).
PostCatalog ==
    { PostJson(<< "d1" >>, File("post", ".md"), "markdown", None, "T1",
               << "Ann" >>, 1, 1, 2024, "s1",
               Some(<< "siteA" >>), << "rust", "webdev" >>),
      PostJson(<< "d2" >>, File("post", ".md"), "markdown", Some(<< "static" >>), "T1",
               << "Ann", "Bo" >>, 1, 6, 2024, "s2",
               Some(<< "siteA", "siteB" >>), << "rust" >>),
      PostJson(<< "d3" >>, File("intro", ".rst"), "rst", Some(<< "static" >>), "T3",
               << "Ann", "Bo", "Cy" >>, 21, 12, 2023, "s3",
               None, << >>),
      PostJson(<< "d4" >>, File("notes", ".md"), "markdown", None, "T4",
               << "Bo" >>, 1, 6, 2024, "s4",
               Some(<< >>), << "projects", "projects" >>),
      PostJson(<< "d5" >>, File("tie", ".md"), "markdown", None, "T5",
               << "Cy" >>, 1, 6, 2024, "s5",
               Some(<< "siteB", "siteA" >>), << "index" >>),
      PostJson(<< "d6" >>, File("post", ".md"), "bogus", Some(<< "static" >>), "T6",
               << "Ann" >>, 3, 3, 2024, "s6",
               Some(<< "siteA" >>), << "rust" >>),
      PostJson(<< "d7" >>, File("post", ".md"), "markdown", Some(<< "static" >>), "T7",
               << >>, 3, 3, 2024, "s7",
               Some(<< "siteA" >>), << "rust" >>),
      PostJson(<< "d8" >>, File("post", ".md"), "markdown", Some(<< "static" >>), "T8",
               << "Ann" >>, 1, 13, 2024, "s8",
               Some(<< "siteA" >>), << "rust" >>),
      PostJson(<< "d9" >>, File("meta", ".md"), "markdown", None, "T9",
               << "Bo" >>, 9, 9, 2024, "s9",
               None, << "blog" >>) }

ProjJson(dir, file, fmt, static, name, d, m, y, desc) ==
    [file_path |-> file, proj_dir |-> dir, format |-> fmt, static_dir |-> static,
     thumbnail |-> << "static", "thumb.png" >>, project |-> name,
     day |-> d, month |-> m, year |-> y, description |-> desc]

\* The proj.json files a projects source directory may hold; the third
\* declares no static assets directory (static_dir is null), the fourth has
\* a date that is not a calendar date.
ProjCatalog ==
    { ProjJson(<< "pa" >>, File("proj", ".md"), "markdown", Some(<< "static" >>),
               "siteA", 1, 2, 2024, "a"),
      ProjJson(<< "pb" >>, File("readme", ".md"), "markdown", Some(<< "static" >>),
               "siteB", 1, 5, 2023, "b"),
      ProjJson(<< "pc" >>, File("proj", ".md"), "markdown", None,
               "siteC", 1, 5, 2023, "c"),
      ProjJson(<< "pd" >>, File("proj", ".md"), "markdown", Some(<< "static" >>),
               "siteD", 1, 13, 2024, "d") }

\* Every list of at most n elements of S: what glob may return, in any
\* order.  A descriptor names its own directory (post_dir, proj_dir), so two
\* directories holding the same descriptor give the same element twice.
SeqsUpTo(S, n) == UNION { [1..k -> S] : k \in 0..n }

\* ----------------------------------------------------- datetime.date

IsLeap(y) == (y % 4 = 0 /\ y % 100 # 0) \/ y % 400 = 0

DaysInMonth(y, m) ==
    IF m \in { 4, 6, 9, 11 } THEN 30
    ELSE IF m = 2 THEN (IF IsLeap(y) THEN 29 ELSE 28)
    ELSE 31

\* datetime.date(day=, month=, year=) raises ValueError outside these ranges.
ValidDate(d, m, y) ==
    /\ y >= 1 /\ y <= 9999
    /\ m >= 1 /\ m <= 12
    /\ d >= 1 /\ d <= DaysInMonth(y, m)

\* datetime.date objects compare by (year, month, day).
DateLess(a, b) ==
    \/ a.year < b.year
    \/ a.year = b.year /\ a.month < b.month
    \/ a.year = b.year /\ a.month = b.month /\ a.day < b.day

MonthName ==
    << "January", "February", "March", "April", "May", "June", "July",
       "August", "September", "October", "November", "December" >>

\* date.strftime("%B %-d, %Y")
render_date_string(date) ==
    MonthName[date.month] \o " " \o ToString(date.day) \o ", " \o ToString(date.year)

\* ------------------------------------------------------------ parsing

parse_post_raises(j) == ~ ValidDate(j.day, j.month, j.year)

\* PostData
parse_post(j) ==
    [path |-> j.file_path, directory |-> j.post_dir, format |-> j.format,
     static |-> IF j.static_dir # None THEN j.static_dir ELSE None,
     title |-> j.title, authors |-> j.authors,
     date |-> [year |-> j.year, month |-> j.month, day |-> j.day],
     description |-> j.description, thumbnail |-> j.thumbnail,
     project |-> j.projects, tags |-> j.tags]

\* Path(proj_json["static_dir"]) raises TypeError on null.
parse_proj_raises(j) == j.static_dir = None \/ ~ ValidDate(j.day, j.month, j.year)

\* What parse_proj raises: the arguments of ProjectData are evaluated in
\* order, Path(static_dir) before datetime.date.
parse_proj_error(j) == IF j.static_dir = None THEN "TypeError" ELSE "ValueError"

\* ProjectData
parse_proj(j) ==
    [path |-> j.file_path, directory |-> j.proj_dir, format |-> j.format,
     static |-> Some(j.static_dir[1]), thumbnail |-> j.thumbnail,
     name |-> j.project,
     date |-> [year |-> j.year, month |-> j.month, day |-> j.day],
     description |-> j.description]

\* ------------------------------------------------------------- pandoc

\* The formats the converter reads; pandoc.read raises on any other.
PandocFormats == { "markdown", "rst" }

pandoc_raises(format) == format \notin PandocFormats

\* pandoc.write(pandoc.read(text, format), format='html') of the text of the
\* file at src_path: the fragment is known by the file it was converted from.
pandoc_html(src_path, format) == [html_of |-> src_path, read_as |-> format]

\* PostHTML
build_post_html(m, post_data) ==
    [post_data |-> post_data,
     post_src |-> pandoc_html(
         joinpath3(post_src_dir(m), post_data.directory,
                   << post_data.path.stem \o post_data.path.suffix >>),
         post_data.format)]

\* ------------------------------------------------------ author string

RECURSIVE JoinStr(_, _)
\* sep.join(parts)
JoinStr(sep, parts) ==
    IF Len(parts) = 0 THEN ""
    ELSE IF Len(parts) = 1 THEN parts[1]
    ELSE parts[1] \o sep \o JoinStr(sep, Tail(parts))

render_authors_raises(author_list) == Len(author_list) = 0

\* The value returned when no ValueError is raised: a string, or None when
\* no branch of the if/elif chain is taken.
render_authors_string(author_list) ==
    IF Len(author_list) = 0 THEN None
    ELSE IF Len(author_list) = 1 THEN Some(author_list[1])
    ELSE IF Len(author_list) < 1
         THEN Some(JoinStr(" ", [i \in 1..(Len(author_list) - 1) |->
                                     author_list[i] \o ", "])
                   \o "and " \o author_list[Len(author_list)])
    ELSE None

\* ------------------------------------------------------- writing a post

\* Where build_post_page puts the page: site_build_dir.joinpath(
\* post_build_dir, directory), then the stem of the source file + ".html".
post_page_dir(m, post_data) ==
    joinpath3(site_build_dir(m), post_build_dir(m), post_data.directory)

post_page_path(m, post_data) ==
    joinpath2(post_page_dir(m, post_data), << stem(post_data.path) \o ".html" >>)

\* build_post_page, were it not to render the author string.
build_post_page_never_raises(Post) == FALSE

build_post_page_raises(Post) == render_authors_raises(Post.post_data.authors)

\* What PostTemp.render is given.
post_page_text(Post) ==
    [kind |-> "post",
     header_title |-> Post.post_data.title \o " - Alia Lescoulie",
     depth |-> << "..", ".." >>,
     post_title |-> Post.post_data.title,
     post_author |-> render_authors_string(Post.post_data.authors),
     post_date |-> render_date_string(Post.post_data.date),
     post_html |-> Post.post_src]

\* PostBuildData
build_post_page(m, Post) ==
    [path |-> post_page_path(m, Post.post_data),
     directory |-> post_page_dir(m, Post.post_data),
     data |-> Post.post_data]

\* new_static_dir of copy_post_files
post_static_dir(m, post) ==
    joinpath3(site_build_dir(m), post_build_dir(m), post.data.directory \o << "static" >>)

\* ------------------------------------------------------------ listings

\* root_dir of render_tags and build_post_blocks
root_dir(link_depth) ==
    IF link_depth <= 0 THEN << >> ELSE [i \in 1..link_depth |-> ".."]

\* The (link, tag) pairs tag.html.jinja is rendered with, in the order joined.
render_tags(tags, link_depth) ==
    [i \in 1..Len(tags) |->
        [link |-> joinpath2(root_dir(link_depth), << tags[i] \o ".html" >>),
         tag |-> tags[i]]]

\* date_sort
date_sort(x) == x.data.date

\* Whether x goes before y in sorted(key=date_sort, reverse=reverse_cron).
SortsBefore(x, y, reverse_cron) ==
    IF reverse_cron THEN DateLess(date_sort(y), date_sort(x))
    ELSE DateLess(date_sort(x), date_sort(y))

\* x put into an ordered list behind every element it does not sort before:
\* elements with equal keys keep the order they came in (sorted is stable,
\* also with reverse=True).
RECURSIVE InsertSorted(_, _, _)
InsertSorted(x, s, reverse_cron) ==
    IF Len(s) = 0 THEN << x >>
    ELSE IF SortsBefore(x, Head(s), reverse_cron) THEN << x >> \o s
    ELSE << Head(s) >> \o InsertSorted(x, Tail(s), reverse_cron)

RECURSIVE SortedFrom(_, _, _)
SortedFrom(done, rest, reverse_cron) ==
    IF Len(rest) = 0 THEN done
    ELSE SortedFrom(InsertSorted(Head(rest), done, reverse_cron), Tail(rest), reverse_cron)

\* sorted(posts, key=post_sort_lambda, reverse=reverse_cron)
sorted_posts(posts, reverse_cron) == SortedFrom(<< >>, posts, reverse_cron)

\* What post_block.html.jinja is rendered with for one post.
post_block(post, post_build, link_depth) ==
    [title |-> post.data.title,
     img_link |-> joinpath2(root_dir(link_depth),
                            joinpath3(post_build, post.data.directory, post.data.thumbnail)),
     link |-> joinpath2(root_dir(link_depth),
                        joinpath3(post_build, post.data.directory,
                                  << stem(post.data.path) \o ".html" >>)),
     date |-> render_date_string(post.data.date),
     author |-> render_authors_string(post.data.authors),
     summary |-> post.data.description,
     tags |-> render_tags(post.data.tags, link_depth)]

build_post_blocks_raises(posts) ==
    \E i \in 1..Len(posts) : render_authors_raises(posts[i].data.authors)

build_post_blocks(posts, post_build, link_depth, reverse_cron) ==
    LET sorted == sorted_posts(posts, reverse_cron)
    IN  [i \in 1..Len(sorted) |-> post_block(sorted[i], post_build, link_depth)]

\* link_depth and reverse_cron as build_blog_page leaves them: the defaults
\* of build_post_blocks.
blog_link_depth == 0

\* reverse_cron, were build_blog_page to ask for chronological order.
blog_reverse_cron_off == FALSE

blog_reverse_cron == TRUE

\* What build_blog_page renders blog.html.jinja with.
blog_page_text(m, posts, title) ==
    [kind |-> "blog",
     header_title |-> "Blog",
     title |-> title,
     posts |-> build_post_blocks(posts, post_build_dir(m), blog_link_depth,
                                 blog_reverse_cron)]

blog_page_path(m, name) == joinpath2(site_build_dir(m), << name >>)

\* ---------------------------------------------------------------- tags

\* tags_map[tag], were every post appended under every tag.
SelectAllPosts(posts, tag) == posts

RECURSIVE SelectPosts(_, _)
\* tags_map[tag]: a post is appended once for each time it lists the tag.
SelectPosts(posts, tag) ==
    IF Len(posts) = 0 THEN << >>
    ELSE LET p == Head(posts)
             n == Cardinality({ i \in 1..Len(p.data.tags) : p.data.tags[i] = tag })
         IN  [i \in 1..n |-> p] \o SelectPosts(Tail(posts), tag)

\* tags_set
tags_set(posts) ==
    UNION { { posts[i].data.tags[k] : k \in 1..Len(posts[i].data.tags) } :
            i \in 1..Len(posts) }

tag_page_name(tag) == tag \o ".html"

tag_page_title(tag) == tag \o " Blog Posts"

\* ------------------------------------------------------------ projects

\* belongs, were the name not looked up in the field.
belongs_any_project(project, post) == post.data.project # None

\* post.data.project is not None and project.name in post.data.project
belongs(project, post) ==
    /\ post.data.project # None
    /\ \E k \in 1..Len(post.data.project[1]) : post.data.project[1][k] = project.name

\* PostBuildData.__hash__
post_hash(post) == post.data.title

\* ==, were it to go by the title as __hash__ does.
post_eq_by_title(a, b) == a.data.title = b.data.title

\* PostBuildData's ==, the one it inherits from tuple: field by field.
post_eq(a, b) == a = b

\* set.add: an element is already there when its hash and == both say so.
set_add(s, post) ==
    IF \E q \in s : post_hash(q) = post_hash(post) /\ post_eq(q, post)
    THEN s ELSE s \cup { post }

RECURSIVE proj_posts_from(_, _, _)
proj_posts_from(s, project, posts) ==
    IF Len(posts) = 0 THEN s
    ELSE proj_posts_from(
             IF belongs(project, Head(posts)) THEN set_add(s, Head(posts)) ELSE s,
             project, Tail(posts))

\* proj_posts of build_project_page_html
proj_posts(project, posts) == proj_posts_from({ }, project, posts)

\* list(a_set): the elements once each, in an order the hashes decide.
Enumerations(S) ==
    { f \in [1..Cardinality(S) -> S] :
        \A i, j \in 1..Cardinality(S) : i # j => f[i] # f[j] }

\* link_depth and reverse_cron as build_project_page_html passes them.
proj_link_depth == 2

\* reverse_cron, were build_project_page_html to leave it at its default.
proj_reverse_cron_default == TRUE

proj_reverse_cron == FALSE

build_project_page_html_raises(project, listed) ==
    pandoc_raises(project.format) \/ build_post_blocks_raises(listed)

\* ProjectHTML, for the order `listed` that list(proj_posts) came out in.
build_project_page_html(m, project, listed) ==
    [data |-> project,
     proj_src |->
        [kind |-> "project",
         header_title |-> "project.name - Alia Lescoulie",
         depth |-> << "..", ".." >>,
         project_name |-> project.name,
         proj_text |-> pandoc_html(
             joinpath3(projects_src_dir(m), project.directory,
                       << project.path.stem \o project.path.suffix >>),
             project.format),
         posts |-> build_post_blocks(listed, post_build_dir(m),
                                     proj_link_depth, proj_reverse_cron)]]

proj_page_dir(m, data) ==
    joinpath3(site_build_dir(m), projects_build_dir(m), data.directory)

\* ProjectBuildData
write_project(m, project) ==
    [path |-> joinpath2(proj_page_dir(m, project.data),
                        << stem(project.data.path) \o ".html" >>),
     directory |-> proj_page_dir(m, project.data),
     data |-> project.data]

\* new_static_dir of copy_project_files
proj_static_dir(m, project) ==
    joinpath3(site_build_dir(m), projects_build_dir(m),
              project.data.directory \o << "static" >>)

project_block(m, project) ==
    [title |-> project.data.name,
     img_link |-> joinpath3(projects_build_dir(m), project.data.directory,
                            project.data.thumbnail),
     link |-> joinpath3(projects_build_dir(m), project.data.directory,
                        << stem(project.data.path) \o ".html" >>),
     data |-> render_date_string(project.data.date),
     summary |-> project.data.description]

\* What build_projects_page renders projects.html.jinja with.
projects_page_text(m, projects) ==
    LET sorted == sorted_posts(projects, FALSE)
    IN  [kind |-> "projects",
         header_title |-> "Projects - Alia Lescoulie",
         projects |-> [i \in 1..Len(sorted) |-> project_block(m, sorted[i])]]

projects_page_path(m) == joinpath2(site_build_dir(m), << "projects.html" >>)

\* ------------------------------------------------------ the output tree

IsPrefix(a, b) == Len(a) <= Len(b) /\ SubSeq(b, 1, Len(a)) = a

\* open(path, 'w') and write
WriteFile(f, path, text) ==
    [p \in DOMAIN f \cup { path } |-> IF p = path THEN text ELSE f[p]]

\* shutil.copytree(src, dst): dst now holds a copy of the tree at src.
CopyTree(c, src, dst) ==
    [d \in DOMAIN c \cup { dst } |-> IF d = dst THEN src ELSE c[d]]

\* Were rmtree to leave the files where they are.
RmTreeKeepsFiles(f, root) == f

\* What shutil.rmtree(root) leaves of a function on paths, and of a set of them.
RmTreeFn(f, root) == [p \in { q \in DOMAIN f : ~ IsPrefix(root, q) } |-> f[p]]

RmTreeSet(d, root) == { q \in d : ~ IsPrefix(root, q) }

NoFiles == [p \in { } |-> << >>]

\* The pages build_pages finds in the site source directory (*.html.jinja).
SitePages == { "index.html", "about.html" }

\* str(page_path.stem)[:-5].capitalize()
Capitalized(page) == IF page = "about.html" THEN "About" ELSE "Index"

page_title(page) ==
    IF page = "index.html" THEN "Alia Lescoulie"
    ELSE Capitalized(page) \o " - Alia Lescoulie"

page_text(m, page) ==
    [kind |-> "page", header_title |-> page_title(page),
     template |-> joinpath2(site_src_dir(m), << page \o ".jinja" >>)]

\* An output tree an earlier build left behind.
StaleFiles(m) ==
    [p \in { joinpath2(site_build_dir(m), << "blog.html" >>),
             joinpath2(site_build_dir(m), << "old.html" >>),
             joinpath2(site_build_dir(m), << "posts", "gone", "post.html" >>) } |->
        [kind |-> "stale"]]

StaleDirs(m) ==
    { site_build_dir(m),
      joinpath2(site_build_dir(m), << "static" >>),
      joinpath2(site_build_dir(m), << "posts" >>),
      joinpath2(site_build_dir(m), << "posts", "gone" >>),
      joinpath2(site_build_dir(m), << "posts", "gone", "static" >>) }

\* path.mkdir(parents=True, exist_ok=True): the directory and its ancestors.
MkdirParents(d, path) == d \cup { SubSeq(path, 1, k) : k \in 1..Len(path) }

\* --------------------------------------------------------------- state

VARIABLES
    mode,         \* the entry point running: "test" or "production"
    pc,           \* the call the entry point is at
    err,          \* the exception that ended the run, NoError while there is none
    fs,           \* output files: path -> what was written
    dirs,         \* directories that exist in the output tree
    copied,       \* copied trees: destination directory -> source directory
    posts,        \* build_blog's posts as collect_posts returned them
    post_htmls,   \* ... as the build_post_html comprehension has them so far
    built,        \* ... as the build_post_page comprehension has them so far
    copy_i,       \* posts the copy_post_files loop is done with
    tags_left,    \* keys of tags_map the loop of build_tags_pages has yet to do
    blog_posts,   \* what build_blog returned to the entry point
    projs,        \* projs_data of build_projects
    proj_html,    \* proj_html of build_projects so far
    proj_builds,  \* proj_builds of build_projects so far
    pcopy_i,      \* projects the copy_project_files loop is done with
    log,          \* the calls made that compose or write, in order
    rebuilt,      \* whether an earlier run of the entry point left this tree
    src_dirs,     \* the directories of the working tree the commands see
    src_files,    \* the files of the working tree: path -> content
    cli           \* the last scaffold command run and how it ended

vars ==
    << mode, pc, err, fs, dirs, copied, posts, post_htmls, built, copy_i,
       tags_left, blog_posts, projs, proj_html, proj_builds, pcopy_i, log,
       rebuilt, src_dirs, src_files, cli >>

\* The working tree and the command line of the scaffold commands.
scaffold_vars == << src_dirs, src_files, cli >>

\* What no call of a build changes.
run_vars == << mode, rebuilt, scaffold_vars >>

\* What the scaffold commands leave alone.
build_vars ==
    << mode, pc, err, fs, dirs, copied, posts, post_htmls, built, copy_i,
       tags_left, blog_posts, projs, proj_html, proj_builds, pcopy_i, log,
       rebuilt >>

NoCommand == [cmd |-> "", name |-> "", raised |-> ""]

blog_vars == << posts, post_htmls, built, copy_i, tags_left, blog_posts >>

proj_vars == << projs, proj_html, proj_builds, pcopy_i >>

tree_vars == << fs, dirs, copied >>

Event(op, path) == [op |-> op, path |-> path]

NoError == [type |-> "", where |-> "", item |-> << >>]

\* An exception leaves the entry point: nothing after it runs.  `where` is
\* the function that raised and `item` what it was working on.
Raise(type, where, item) ==
    pc' = "failed" /\ err' = [type |-> type, where |-> where, item |-> item]

\* The first element of a list that makes a comprehension raise.
FirstBad(bad) == CHOOSE i \in bad : \A j \in bad : i <= j

Init ==
    /\ mode \in Modes
    /\ pc = "clean"
    /\ err = NoError
    /\ \/ fs = NoFiles /\ dirs = { } /\ copied = NoFiles
       \/ /\ fs = StaleFiles(mode)
          /\ dirs = StaleDirs(mode)
          /\ copied = CopyTree(NoFiles, STATIC_DIR,
                               joinpath2(site_build_dir(mode), << "static" >>))
    /\ posts = << >> /\ post_htmls = << >> /\ built = << >>
    /\ copy_i = 0 /\ tags_left = { } /\ blog_posts = << >>
    /\ projs = << >> /\ proj_html = << >> /\ proj_builds = << >>
    /\ pcopy_i = 0
    /\ log = << >>
    /\ rebuilt = FALSE
    /\ src_dirs = { } /\ src_files = NoFiles /\ cli = NoCommand

\* build_production: build.clean(); build_test: rmtree if the directory
\* exists, then make_build_dir.
Clean ==
    /\ pc = "clean"
    /\ fs' = RmTreeFn(fs, site_build_dir(mode))
    /\ copied' = RmTreeFn(copied, site_build_dir(mode))
    /\ dirs' = IF mode = "test"
               THEN RmTreeSet(dirs, site_build_dir(mode)) \cup { site_build_dir(mode) }
               ELSE RmTreeSet(dirs, site_build_dir(mode))
    /\ pc' = "copy_static"
    /\ UNCHANGED << run_vars, err, blog_vars, proj_vars, log >>

\* copy_static: make_build_dir, then copytree, which raises when its
\* destination exists.
CopyStatic ==
    /\ pc = "copy_static"
    /\ LET dst == joinpath2(site_build_dir(mode), << "static" >>)
       IN  IF dst \in dirs
           THEN Raise("FileExistsError", "copy_static", dst) /\ UNCHANGED tree_vars
           ELSE /\ dirs' = dirs \cup { site_build_dir(mode), dst }
                /\ copied' = CopyTree(copied, STATIC_DIR, dst)
                /\ pc' = "build_pages"
                /\ UNCHANGED << err, fs >>
    /\ UNCHANGED << run_vars, blog_vars, proj_vars, log >>

RECURSIVE WriteAll(_, _, _)
WriteAll(f, m, pages) ==
    IF pages = { } THEN f
    ELSE LET page == CHOOSE x \in pages : TRUE
         IN  WriteAll(WriteFile(f, joinpath2(site_build_dir(m), << page >>),
                                page_text(m, page)),
                      m, pages \ { page })

\* build_pages: every page of the site source directory, written under
\* the name of its template less ".jinja".
BuildPages ==
    /\ pc = "build_pages"
    /\ fs' = WriteAll(fs, mode, SitePages)
    /\ pc' = "collect_posts"
    /\ UNCHANGED << run_vars, err, dirs, copied, blog_vars, proj_vars, log >>

\* ------------------------------------------------------------ build_blog

\* Where build_blog goes on: each comprehension and loop runs over the
\* whole list before the next statement starts.
\* build_blog, were it to return at once on a single post as well.
pc_after_collect_few_posts(total) ==
    IF total <= 1 THEN "collect_projects" ELSE "build_post_html"

pc_after_collect_posts(total) ==
    IF total = 0 THEN "collect_projects" ELSE "build_post_html"

pc_after_post_html(n, total) ==
    IF n < total THEN "build_post_html" ELSE "build_post_page"

\* build_blog, were it to go on after the first page instead of the last.
pc_after_first_post_page(n, total) == "copy_post_files"

pc_after_post_page(n, total) ==
    IF n < total THEN "build_post_page" ELSE "copy_post_files"

pc_after_copy_post(n, total) ==
    IF n < total THEN "copy_post_files" ELSE "build_blog_page"

\* collect_posts: glob, then parse_post on each descriptor found.  An empty
\* list makes build_blog return [] at once.
CollectPosts ==
    /\ pc = "collect_posts"
    /\ \E js \in SeqsUpTo(PostCatalog, MaxPosts) :
          IF \E i \in 1..Len(js) : parse_post_raises(js[i])
          THEN /\ Raise("ValueError", "parse_post",
                        js[FirstBad({ i \in 1..Len(js) : parse_post_raises(js[i]) })])
               /\ UNCHANGED posts
          ELSE /\ posts' = [i \in 1..Len(js) |-> parse_post(js[i])]
               /\ pc' = pc_after_collect_posts(Len(js))
               /\ UNCHANGED err
    /\ UNCHANGED << run_vars, tree_vars, post_htmls, built, copy_i, tags_left,
                    blog_posts, proj_vars, log >>

\* One element of [build_post_html(post, ...) for post in posts].
BuildPostHtml ==
    /\ pc = "build_post_html"
    /\ LET post == posts[Len(post_htmls) + 1]
       IN  IF pandoc_raises(post.format)
           THEN Raise("PandocError", "build_post_html", post) /\ UNCHANGED post_htmls
           ELSE /\ post_htmls' = Append(post_htmls, build_post_html(mode, post))
                /\ pc' = pc_after_post_html(Len(post_htmls) + 1, Len(posts))
                /\ UNCHANGED err
    /\ UNCHANGED << run_vars, tree_vars, posts, built, copy_i, tags_left,
                    blog_posts, proj_vars, log >>

\* One element of [build_post_page(post, ...) for post in posts].
BuildPostPage ==
    /\ pc = "build_post_page"
    /\ LET Post == post_htmls[Len(built) + 1]
           new == build_post_page(mode, Post)
       IN  IF build_post_page_raises(Post)
           THEN /\ Raise("ValueError", "build_post_page", Post.post_data)
                /\ UNCHANGED << fs, dirs, built, log >>
           ELSE /\ dirs' = MkdirParents(dirs, new.directory)
                /\ fs' = WriteFile(fs, new.path, post_page_text(Post))
                /\ built' = Append(built, new)
                /\ log' = Append(log, Event("build_post_page", new.path))
                /\ pc' = pc_after_post_page(Len(built) + 1, Len(post_htmls))
                /\ UNCHANGED err
    /\ UNCHANGED << run_vars, copied, posts, post_htmls, copy_i, tags_left,
                    blog_posts, proj_vars >>

\* One round of the loop over copy_post_files.
CopyPostFiles ==
    /\ pc = "copy_post_files"
    /\ LET post == built[copy_i + 1]
           new_static_dir == post_static_dir(mode, post)
       IN  IF post.data.static = None
           THEN UNCHANGED << dirs, copied, log >>
           ELSE /\ dirs' = dirs \cup { new_static_dir }
                /\ copied' = CopyTree(copied,
                                      joinpath3(post_src_dir(mode), post.data.directory,
                                                post.data.static[1]),
                                      new_static_dir)
                /\ log' = Append(log, Event("copy_post_files", new_static_dir))
    /\ copy_i' = copy_i + 1
    /\ pc' = pc_after_copy_post(copy_i + 1, Len(built))
    /\ UNCHANGED << run_vars, err, fs, posts, post_htmls, built, tags_left,
                    blog_posts, proj_vars >>

\* build_blog_page(posts, ...) for blog.html; then build_tags_pages finds
\* the tags, and build_blog returns when there is none.
BuildBlogPage ==
    /\ pc = "build_blog_page"
    /\ IF build_post_blocks_raises(built)
       THEN /\ Raise("ValueError", "build_blog_page", built)
            /\ UNCHANGED << fs, log, tags_left, blog_posts >>
       ELSE /\ fs' = WriteFile(fs, blog_page_path(mode, "blog.html"),
                               blog_page_text(mode, built, "Blog"))
            /\ log' = Append(log, Event("build_blog_page",
                                        blog_page_path(mode, "blog.html")))
            /\ tags_left' = tags_set(built)
            /\ IF tags_set(built) = { }
               THEN pc' = "collect_projects" /\ blog_posts' = built
               ELSE pc' = "build_tags_pages" /\ UNCHANGED blog_posts
            /\ UNCHANGED err
    /\ UNCHANGED << run_vars, dirs, copied, posts, post_htmls, built, copy_i, proj_vars >>

\* One round of the loop over tags_map.keys(), which come in any order;
\* after the last, build_blog returns posts.
BuildTagPage ==
    /\ pc = "build_tags_pages"
    /\ \E tag \in tags_left :
          LET listed == SelectPosts(built, tag)
              path == blog_page_path(mode, tag_page_name(tag))
          IN  IF build_post_blocks_raises(listed)
              THEN /\ Raise("ValueError", "build_tags_pages", listed)
                   /\ UNCHANGED << fs, log, tags_left, blog_posts >>
              ELSE /\ fs' = WriteFile(fs, path,
                                      blog_page_text(mode, listed, tag_page_title(tag)))
                   /\ log' = Append(log, Event("build_tags_pages", path))
                   /\ tags_left' = tags_left \ { tag }
                   /\ IF tags_left = { tag }
                      THEN pc' = "collect_projects" /\ blog_posts' = built
                      ELSE pc' = "build_tags_pages" /\ UNCHANGED blog_posts
                   /\ UNCHANGED err
    /\ UNCHANGED << run_vars, dirs, copied, posts, post_htmls, built, copy_i, proj_vars >>

\* -------------------------------------------------------- build_projects

pc_after_collect_projects(total) ==
    IF total = 0 THEN "build_projects_page" ELSE "build_project_page_html"

pc_after_project_html(n, total) ==
    IF n < total THEN "build_project_page_html" ELSE "write_project"

pc_after_write_project(n, total) ==
    IF n < total THEN "write_project" ELSE "copy_project_files"

pc_after_copy_project(n, total) ==
    IF n < total THEN "copy_project_files" ELSE "build_projects_page"

\* collect_projects: glob, then parse_proj on each descriptor found.
CollectProjects ==
    /\ pc = "collect_projects"
    /\ \E js \in SeqsUpTo(ProjCatalog, MaxProjs) :
          IF \E i \in 1..Len(js) : parse_proj_raises(js[i])
          THEN /\ LET bad == js[FirstBad({ i \in 1..Len(js) : parse_proj_raises(js[i]) })]
                  IN  Raise(parse_proj_error(bad), "parse_proj", bad)
               /\ UNCHANGED projs
          ELSE /\ projs' = [i \in 1..Len(js) |-> parse_proj(js[i])]
               /\ pc' = pc_after_collect_projects(Len(js))
               /\ UNCHANGED err
    /\ UNCHANGED << run_vars, tree_vars, blog_vars, proj_html, proj_builds, pcopy_i, log >>

\* One element of [build_project_page_html(project, posts, ...) for project
\* in projs_data], with posts what build_blog returned.
BuildProjectPageHtml ==
    /\ pc = "build_project_page_html"
    /\ LET project == projs[Len(proj_html) + 1]
       IN  \E listed \in Enumerations(proj_posts(project, blog_posts)) :
              IF build_project_page_html_raises(project, listed)
              THEN /\ Raise("PandocError", "build_project_page_html", project)
                   /\ UNCHANGED << proj_html, log >>
              ELSE /\ proj_html' = Append(proj_html,
                                          build_project_page_html(mode, project, listed))
                   /\ log' = Append(log, Event("build_project_page_html",
                                               proj_page_dir(mode, project)))
                   /\ pc' = pc_after_project_html(Len(proj_html) + 1, Len(projs))
                   /\ UNCHANGED err
    /\ UNCHANGED << run_vars, tree_vars, blog_vars, projs, proj_builds, pcopy_i >>

\* One element of [write_project(project, ...) for project in proj_html].
WriteProject ==
    /\ pc = "write_project"
    /\ LET project == proj_html[Len(proj_builds) + 1]
           new == write_project(mode, project)
       IN  /\ dirs' = MkdirParents(dirs, new.directory)
           /\ fs' = WriteFile(fs, new.path, project.proj_src)
           /\ proj_builds' = Append(proj_builds, new)
           /\ log' = Append(log, Event("write_project", new.path))
           /\ pc' = pc_after_write_project(Len(proj_builds) + 1, Len(proj_html))
    /\ UNCHANGED << run_vars, err, copied, blog_vars, projs, proj_html, pcopy_i >>

\* One round of the loop over copy_project_files.
CopyProjectFiles ==
    /\ pc = "copy_project_files"
    /\ LET project == proj_builds[pcopy_i + 1]
           new_static_dir == proj_static_dir(mode, project)
       IN  IF project.data.static = None
           THEN UNCHANGED << dirs, copied, log >>
           ELSE /\ dirs' = dirs \cup { new_static_dir }
                /\ copied' = CopyTree(copied,
                                      joinpath3(projects_src_dir(mode),
                                                project.data.directory,
                                                project.data.static[1]),
                                      new_static_dir)
                /\ log' = Append(log, Event("copy_project_files", new_static_dir))
    /\ pcopy_i' = pcopy_i + 1
    /\ pc' = pc_after_copy_project(pcopy_i + 1, Len(proj_builds))
    /\ UNCHANGED << run_vars, err, fs, blog_vars, projs, proj_html, proj_builds >>

\* build_projects_page, the last call of both entry points.
BuildProjectsPage ==
    /\ pc = "build_projects_page"
    /\ fs' = WriteFile(fs, projects_page_path(mode),
                       projects_page_text(mode, proj_builds))
    /\ log' = Append(log, Event("build_projects_page", projects_page_path(mode)))
    /\ pc' = "done"
    /\ UNCHANGED << run_vars, err, dirs, copied, blog_vars, proj_vars >>

\* The entry point is run again, after edits of the sources, on the tree
\* the last run left, whether that run returned or raised. The sources
\* this run reads are drawn anew by CollectPosts and CollectProjects.
Rebuild ==
    /\ pc \in { "done", "failed" }
    /\ pc' = "clean"
    /\ err' = NoError
    /\ posts' = << >> /\ post_htmls' = << >> /\ built' = << >>
    /\ copy_i' = 0 /\ tags_left' = { } /\ blog_posts' = << >>
    /\ projs' = << >> /\ proj_html' = << >> /\ proj_builds' = << >>
    /\ pcopy_i' = 0
    /\ log' = << >>
    /\ rebuilt' = TRUE
    /\ UNCHANGED << mode, tree_vars, scaffold_vars >>

Next ==
    \/ Clean
    \/ CopyStatic
    \/ BuildPages
    \/ CollectPosts
    \/ BuildPostHtml
    \/ BuildPostPage
    \/ CopyPostFiles
    \/ BuildBlogPage
    \/ BuildTagPage
    \/ CollectProjects
    \/ BuildProjectPageHtml
    \/ WriteProject
    \/ CopyProjectFiles
    \/ BuildProjectsPage

\* One run of an entry point.
Spec == Init /\ [][Next]_vars

\* Runs of an entry point one after the other, each on the tree the one
\* before left and on sources edited since.
RebuildNext == Next \/ Rebuild

RebuildSpec == Init /\ [][RebuildNext]_vars

\* ------------------------------------------ the scaffold commands (utils)

TEMPLATE_DIR == << "sitegen", "templates" >>

\* The names given on the command line.
ScaffoldNames == { "d1", "new" }

ScaffoldKinds == { "post", "proj" }

\* What the two commands differ in: the directory (post_dir, proj_dir), the
\* template (post_template, proj_template), the descriptor written and the
\* name of the command.
kind_dir(kind) == IF kind = "post" THEN POSTS_DIR ELSE PROJS_DIR

kind_template(kind) == IF kind = "post" THEN "post_temp.json" ELSE "proj_temp.json"

kind_descriptor(kind) == IF kind = "post" THEN "post.json" ELSE "proj.json"

kind_command(kind) == IF kind = "post" THEN "n_post" ELSE "n_proj"

\* post_path, proj_path
content_path(kind, name) == kind_dir(kind) \o << name >>

\* Path.exists()
exists(path) == path \in src_dirs \/ path \in DOMAIN src_files

\* What os.mkdir(path) raises, "" when it makes the directory: the path is
\* there already, or the directory it is to be made in is not (the working
\* directory itself always is).
mkdir_raises(path) ==
    IF exists(path) THEN "FileExistsError"
    ELSE IF Len(path) > 1 /\ SubSeq(path, 1, Len(path) - 1) \notin src_dirs
         THEN "FileNotFoundError"
    ELSE ""

\* Were the command to make the content directory only.
mkdir_content_only(path) == { path }

\* os.mkdir(path); os.mkdir(path / "static")
mkdir_content(path) == { path, path \o << "static" >> }

\* What shutil.copyfile writes: the content of the template.
template_copy(kind) ==
    [kind |-> "template", of |-> TEMPLATE_DIR \o << kind_template(kind) >>]

Ended(kind, name, raised) ==
    [cmd |-> kind_command(kind), name |-> name, raised |-> raised]

\* The body n_post and n_proj share.
Scaffold(kind, name) ==
    LET path == content_path(kind, name)
    IN  IF exists(path)
        THEN /\ cli' = Ended(kind, name, "ValueError")
             /\ UNCHANGED << src_dirs, src_files >>
        ELSE IF mkdir_raises(path) # ""
        THEN /\ cli' = Ended(kind, name, mkdir_raises(path))
             /\ UNCHANGED << src_dirs, src_files >>
        ELSE /\ src_dirs' = src_dirs \cup mkdir_content(path)
             /\ src_files' = WriteFile(src_files,
                                       path \o << kind_descriptor(kind) >>,
                                       template_copy(kind))
             /\ cli' = Ended(kind, name, "")

n_post ==
    /\ \E name \in ScaffoldNames : Scaffold("post", name)
    /\ UNCHANGED build_vars

n_proj ==
    /\ \E name \in ScaffoldNames : Scaffold("proj", name)
    /\ UNCHANGED build_vars

\* The author makes the directory the posts, or the projects, are kept in.
AuthorMakesKindDir ==
    /\ \E kind \in ScaffoldKinds :
          /\ ~ exists(kind_dir(kind))
          /\ src_dirs' = src_dirs \cup { kind_dir(kind) }
    /\ cli' = NoCommand
    /\ UNCHANGED << src_files, build_vars >>

\* The author fills in the descriptor of a content directory, or puts a
\* file into its static directory.
AuthorWrites ==
    /\ \E kind \in ScaffoldKinds, name \in ScaffoldNames :
          /\ content_path(kind, name) \in src_dirs
          /\ \E file \in { << kind_descriptor(kind) >>, << "static", "fig.png" >> } :
                src_files' = WriteFile(src_files, content_path(kind, name) \o file,
                                       [kind |-> "authored", of |-> << >>])
    /\ cli' = NoCommand
    /\ UNCHANGED << src_dirs, build_vars >>

\* The author removes a content directory.
AuthorRemoves ==
    /\ \E kind \in ScaffoldKinds, name \in ScaffoldNames :
          /\ content_path(kind, name) \in src_dirs
          /\ src_dirs' = RmTreeSet(src_dirs, content_path(kind, name))
          /\ src_files' = RmTreeFn(src_files, content_path(kind, name))
    /\ cli' = NoCommand
    /\ UNCHANGED build_vars

\* A working tree in which the directories of the posts and of the projects
\* may or may not be there yet; no build runs.
ScaffoldInit ==
    /\ mode = "production"
    /\ pc = "clean"
    /\ err = NoError
    /\ fs = NoFiles /\ dirs = { } /\ copied = NoFiles
    /\ posts = << >> /\ post_htmls = << >> /\ built = << >>
    /\ copy_i = 0 /\ tags_left = { } /\ blog_posts = << >>
    /\ projs = << >> /\ proj_html = << >> /\ proj_builds = << >>
    /\ pcopy_i = 0
    /\ log = << >>
    /\ rebuilt = FALSE
    /\ src_dirs \in SUBSET { POSTS_DIR, PROJS_DIR }
    /\ src_files = NoFiles
    /\ cli = NoCommand

ScaffoldNext ==
    \/ n_post
    \/ n_proj
    \/ AuthorMakesKindDir
    \/ AuthorWrites
    \/ AuthorRemoves

ScaffoldSpec == ScaffoldInit /\ [][ScaffoldNext]_vars

\* ------------------------------------------------------------- claims

Range(s) == { s[i] : i \in 1..Len(s) }

\* The places in a list of blocks where a given block stands.
Places(blocks, b) == { j \in 1..Len(blocks) : blocks[j] = b }

\* The events of the log made by one function.
EventsOf(op) == { i \in 1..Len(log) : log[i].op = op }

\* The block a post has on a top-level listing, and on a project page.
ListingBlock(post) == post_block(post, post_build_dir(mode), 0)

ProjectPageBlock(post) == post_block(post, post_build_dir(mode), 2)

\* The posts that name a project in their `projects` field; a null or empty
\* field names none.
PostsNaming(name) ==
    { p \in Range(blog_posts) :
        p.data.project # None /\ name \in Range(p.data.project[1]) }

\* C1: every collected post and project has its page at
\* <outputRoot>/posts/<directory>/<stem>.html, respectively
\* <outputRoot>/projects/<directory>/<stem>.html, with outputRoot the site
\* build directory, and the build record returned carries that path; under
\* build_test and under build_production.
C1_PageAtOutputRoot ==
    /\ \A i \in 1..Len(built) :
          /\ built[i].path = site_build_dir(mode) \o << "posts" >>
                                \o built[i].data.directory
                                \o << built[i].data.path.stem \o ".html" >>
          /\ built[i].path \in DOMAIN fs
    /\ \A i \in 1..Len(proj_builds) :
          /\ proj_builds[i].path = site_build_dir(mode) \o << "projects" >>
                                      \o proj_builds[i].data.directory
                                      \o << proj_builds[i].data.path.stem \o ".html" >>
          /\ proj_builds[i].path \in DOMAIN fs

\* C2: the posts listed on a project's page are exactly the posts whose
\* `projects` field contains the project's name, each with one block: none
\* left out, none listed twice, and none with a null or empty field.
C2_ProjectListsItsPosts ==
    \A k \in 1..Len(proj_html) :
        LET blocks == proj_html[k].proj_src.posts
            mine == PostsNaming(proj_html[k].data.name)
        IN  /\ Len(blocks) = Cardinality(mine)
            /\ \A p \in mine : Cardinality(Places(blocks, ProjectPageBlock(p))) = 1
            /\ \A j \in 1..Len(blocks) : \E p \in mine : blocks[j] = ProjectPageBlock(p)

\* A project page listing one post while another post, of a null or empty
\* `projects` field or naming only other projects, is left off it.
C2_Witness ==
    \E k \in 1..Len(proj_html) :
        /\ Len(proj_html[k].proj_src.posts) >= 1
        /\ \E p \in Range(blog_posts) : p \notin PostsNaming(proj_html[k].data.name)

\* C3: when build_tags_pages is done it has written one page for each tag
\* some post carries and no other, the page of a tag at <outputRoot>/<tag>.html
\* under the title "<tag> Blog Posts", and a post has a block on the page of
\* a tag exactly when it carries the tag.
C3_TagPages ==
    pc = "collect_projects" /\ Len(built) > 0 =>
        LET tags == UNION { Range(p.data.tags) : p \in Range(built) }
            page(t) == site_build_dir(mode) \o << t \o ".html" >>
        IN  /\ Cardinality(EventsOf("build_tags_pages")) = Cardinality(tags)
            /\ { log[i].path : i \in EventsOf("build_tags_pages") }
                  = { page(t) : t \in tags }
            /\ \A t \in tags :
                  /\ page(t) \in DOMAIN fs
                  /\ fs[page(t)].kind = "blog"
                  /\ fs[page(t)].title = t \o " Blog Posts"
                  /\ \A p \in Range(built) :
                        Places(fs[page(t)].posts, ListingBlock(p)) # { }
                            <=> t \in Range(p.data.tags)

\* Two tag pages written, one post on both and another post on one only.
C3_Witness ==
    /\ pc = "collect_projects"
    /\ Cardinality(EventsOf("build_tags_pages")) = 2
    /\ \E p, q \in Range(built) :
          /\ Cardinality(Range(p.data.tags)) = 2
          /\ Cardinality(Range(q.data.tags)) = 1

\* The write the log has at i is the last to its path.
LastWriteTo(i) == \A j \in (i + 1)..Len(log) : log[j].path # log[i].path

\* C4: on the blog listing and on every tag page, the block of a post comes
\* before the block of every post of an earlier date, and the blog listing,
\* while no page is written over it, has a block for every post.
C4_ListingsNewestFirst ==
    /\ \A path \in DOMAIN fs :
          fs[path].kind = "blog" =>
              \A p, q \in Range(built) :
                  DateLess(q.data.date, p.data.date) =>
                      \A j \in Places(fs[path].posts, ListingBlock(p)),
                         k \in Places(fs[path].posts, ListingBlock(q)) : j < k
    /\ (\E i \in EventsOf("build_blog_page") : LastWriteTo(i)) =>
          \A p \in Range(built) :
              \E path \in DOMAIN fs :
                  /\ fs[path].kind = "blog" /\ fs[path].title = "Blog"
                  /\ Places(fs[path].posts, ListingBlock(p)) # { }

\* A blog listing and a tag page of two posts that were collected oldest
\* first.
C4_Witness ==
    /\ Len(built) = 2
    /\ DateLess(built[1].data.date, built[2].data.date)
    /\ \E t \in Range(built[1].data.tags) \cap Range(built[2].data.tags) :
          /\ blog_page_path(mode, t \o ".html") \in DOMAIN fs
          /\ Len(fs[blog_page_path(mode, t \o ".html")].posts) = 2
    /\ blog_page_path(mode, "blog.html") \in DOMAIN fs
    /\ fs[blog_page_path(mode, "blog.html")].kind = "blog"

\* C5: on every project page, the block of a post comes before the block of
\* every post of a later date, in whatever order the posts were collected
\* and the association set gave them.
C5_ProjectPostsOldestFirst ==
    \A k \in 1..Len(proj_html) :
        LET blocks == proj_html[k].proj_src.posts
        IN  \A p, q \in PostsNaming(proj_html[k].data.name) :
                DateLess(p.data.date, q.data.date) =>
                    /\ Places(blocks, ProjectPageBlock(p)) # { }
                    /\ Places(blocks, ProjectPageBlock(q)) # { }
                    /\ \A j \in Places(blocks, ProjectPageBlock(p)),
                          i \in Places(blocks, ProjectPageBlock(q)) : j < i

\* A project page of two posts of different dates that build_blog returned
\* newest first.
C5_Witness ==
    /\ Len(blog_posts) = 2
    /\ DateLess(blog_posts[2].data.date, blog_posts[1].data.date)
    /\ \E k \in 1..Len(proj_html) : Len(proj_html[k].proj_src.posts) = 2

RECURSIVE CommaJoined(_)
\* The names of a list, each followed by ", ".
CommaJoined(names) ==
    IF Len(names) = 0 THEN "" ELSE names[1] \o ", " \o CommaJoined(Tail(names))

\* "Ann" for one author, "Ann, Bo, and Cy" for more.
AuthorsAsClaimed(names) ==
    IF Len(names) = 1 THEN names[1]
    ELSE CommaJoined(SubSeq(names, 1, Len(names) - 1)) \o "and " \o names[Len(names)]

\* C6: render_authors_string raises on no author, gives the bare name for
\* one, and for two or more the names in order, all but the last followed
\* by a comma, then "and " and the last: every post page written carries
\* that string as its author line.
C6_AuthorsString ==
    \A i \in 1..Len(built) :
        /\ built[i].data.authors # << >>
        /\ fs[built[i].path].post_author
              = Some(AuthorsAsClaimed(built[i].data.authors))

\* C7: an item of either kind whose descriptor has a null static_dir is
\* parsed and staged without error, and no `static` directory appears
\* under its output directory.
C7_NullStaticDirIsNoOp ==
    /\ ~ ( /\ pc = "failed"
           /\ err.where \in { "parse_post", "parse_proj" }
           /\ err.item.static_dir = None
           /\ ValidDate(err.item.day, err.item.month, err.item.year) )
    /\ \A i \in 1..copy_i :
          built[i].data.static = None =>
              /\ built[i].directory \o << "static" >> \notin dirs
              /\ built[i].directory \o << "static" >> \notin DOMAIN copied
    /\ \A i \in 1..pcopy_i :
          proj_builds[i].data.static = None =>
              /\ proj_builds[i].directory \o << "static" >> \notin dirs
              /\ proj_builds[i].directory \o << "static" >> \notin DOMAIN copied

\* C8 as claimed: of two different posts of one title that both name a
\* project, the project's page lists only one.
C8_SameTitleListedOnce ==
    \A k \in 1..Len(proj_html) :
        \A p, q \in PostsNaming(proj_html[k].data.name) :
            p # q /\ p.data.title = q.data.title =>
                Cardinality({ x \in { p, q } :
                    Places(proj_html[k].proj_src.posts, ProjectPageBlock(x)) # { } }) = 1

\* C8 as amended: two different posts of one title that both name a project
\* are both listed on the project's page; the association set holds two
\* posts as one only when they are equal field by field.
C8_SameTitleBothListed ==
    \A k \in 1..Len(proj_html) :
        \A p, q \in PostsNaming(proj_html[k].data.name) :
            p # q /\ p.data.title = q.data.title =>
                /\ Places(proj_html[k].proj_src.posts, ProjectPageBlock(p)) # { }
                /\ Places(proj_html[k].proj_src.posts, ProjectPageBlock(q)) # { }

\* A project page composed for two posts of one title, different directories
\* and dates, that both name the project.
C8_Witness ==
    \E k \in 1..Len(proj_html) :
        \E p, q \in PostsNaming(proj_html[k].data.name) :
            /\ p.data.title = q.data.title
            /\ p.data.directory # q.data.directory
            /\ p.data.date # q.data.date

\* The events before place i of the log made by one function.
EventsBefore(op, i) == { j \in EventsOf(op) : j < i }

\* C9: when the blog listing, a tag page or a project page is composed, the
\* page of every collected post has been written and none is written after;
\* when the projects index is composed, every project page has been written;
\* the listing, while no page is written over it, and the index hold a
\* block for each item.
C9_ItemsBeforeAggregates ==
    /\ \A i \in 1..Len(log) :
          log[i].op \in { "build_blog_page", "build_tags_pages",
                          "build_project_page_html" } =>
              /\ Cardinality(EventsBefore("build_post_page", i)) = Len(posts)
              /\ \A j \in EventsOf("build_post_page") : j < i
              /\ \A n \in 1..Len(posts) : post_page_path(mode, posts[n]) \in DOMAIN fs
    /\ \A i \in EventsOf("build_blog_page") :
          LastWriteTo(i) => Len(fs[log[i].path].posts) = Len(posts)
    /\ \A i \in EventsOf("build_project_page_html") :
          Len(blog_posts) = Len(posts)
    /\ \A i \in EventsOf("build_projects_page") :
          /\ Cardinality(EventsBefore("write_project", i)) = Len(projs)
          /\ \A n \in 1..Len(projs) :
                write_project(mode, [data |-> projs[n]]).path \in DOMAIN fs
          /\ Len(fs[log[i].path].projects) = Len(projs)

\* A finished build of two posts, a tag page and two projects.
C9_Witness ==
    /\ pc = "done"
    /\ Len(posts) = 2
    /\ Len(projs) = 2
    /\ EventsOf("build_tags_pages") # { }

\* A post that cannot be converted (a format the converter does not read) or
\* composed (no authors).
CannotBeBuilt(post) == post.format \notin PandocFormats \/ post.authors = << >>

\* C10: when a post fails to parse, convert or compose, wherever it stands
\* among the posts, build_blog does not return; no blog listing and no tag
\* page is written, no post's static assets are staged, and build_projects
\* does not run.
C10_FailingPostAbortsBuild ==
    err.where = "parse_post" \/ (\E i \in 1..Len(posts) : CannotBeBuilt(posts[i])) =>
        /\ pc \in { "build_post_html", "build_post_page", "failed" }
        /\ EventsOf("build_blog_page") = { }
        /\ EventsOf("build_tags_pages") = { }
        /\ \A path \in DOMAIN fs : fs[path].kind # "blog"
        /\ EventsOf("copy_post_files") = { }
        /\ \A d \in DOMAIN copied :
              ~ IsPrefix(joinpath2(site_build_dir(mode), post_build_dir(mode)), d)
        /\ blog_posts = << >>
        /\ projs = << >> /\ proj_html = << >> /\ proj_builds = << >>
        /\ projects_page_path(mode) \notin DOMAIN fs

\* The second of two posts fails when its page is composed, after the page
\* of the first was written.
C10_Witness ==
    /\ pc = "failed"
    /\ err.where = "build_post_page"
    /\ Len(built) = 1
    /\ built[1].data.static # None

\* The directory a page is in.
DirOf(path) == SubSeq(path, 1, Len(path) - 1)

RECURSIVE Resolve(_, _)
\* Where a relative link leads from a directory: ".." goes up one level.
Resolve(dir, link) ==
    IF Len(link) = 0 THEN dir
    ELSE IF Head(link) = ".."
         THEN Resolve(IF Len(dir) = 0 THEN dir ELSE DirOf(dir), Tail(link))
    ELSE Resolve(Append(dir, Head(link)), Tail(link))

\* The permalink and the tag links of the blocks a page at `page` holds for
\* the post lead to the page written for the post and to the pages written
\* for its tags.
BlockLinksLead(page, blocks, block, post) ==
    \A j \in Places(blocks, block) :
        /\ Resolve(DirOf(page), blocks[j].link) = post.path
        /\ post.path \in DOMAIN fs
        /\ \A t \in 1..Len(blocks[j].tags) :
              \E i \in EventsOf("build_tags_pages") :
                  /\ log[i].path = Resolve(DirOf(page), blocks[j].tags[t].link)
                  /\ log[i].path = site_build_dir(mode)
                                      \o << blocks[j].tags[t].tag \o ".html" >>

\* The links of the blocks on the blog listing and the tag pages.
ListingLinksLead ==
    \A page \in DOMAIN fs :
        fs[page].kind = "blog" =>
            \A p \in Range(blog_posts) :
                BlockLinksLead(page, fs[page].posts, ListingBlock(p), p)

\* The links of the blocks on the project pages.
ProjectPageLinksLead ==
    \A k \in 1..Len(proj_builds) :
        \A p \in Range(blog_posts) :
            BlockLinksLead(proj_builds[k].path, proj_html[k].proj_src.posts,
                           ProjectPageBlock(p), p)

\* C11: once build_blog has returned, every post permalink and tag link of
\* a block on the blog listing, a tag page (link depth 0) or a project page
\* (link depth 2) leads, from the directory of the page it is on, to the
\* path the post's page or the tag's page was written at; under build_test
\* and under build_production.
C11_BlockLinksResolve ==
    blog_posts # << >> => ListingLinksLead /\ ProjectPageLinksLead

\* A file of the tree is what this run wrote from the sources it read.
FromThisRun(path) ==
    LET text == fs[path]
    IN  \/ /\ text.kind = "page"
           /\ \E page \in SitePages :
                 /\ path = joinpath2(site_build_dir(mode), << page >>)
                 /\ text = page_text(mode, page)
        \/ /\ text.kind = "post"
           /\ \E i \in 1..Len(built) :
                 /\ path = built[i].path
                 /\ built[i].data = posts[i]
                 /\ text = post_page_text(post_htmls[i])
        \/ /\ text.kind = "blog"
           /\ \/ path = blog_page_path(mode, "blog.html")
              \/ \E tag \in tags_set(built) :
                    path = blog_page_path(mode, tag_page_name(tag))
           /\ \A j \in 1..Len(text.posts) :
                 \E p \in Range(built) : text.posts[j] = ListingBlock(p)
        \/ /\ text.kind = "project"
           /\ \E k \in 1..Len(proj_builds) :
                 /\ path = proj_builds[k].path
                 /\ text = proj_html[k].proj_src
        \/ /\ text.kind = "projects"
           /\ path = projects_page_path(mode)
           /\ text = projects_page_text(mode, proj_builds)

\* A copied directory is the static directory of the site, of a post or of
\* a project this run read.
CopiedThisRun(dir) ==
    \/ dir = joinpath2(site_build_dir(mode), << "static" >>)
    \/ \E i \in 1..Len(built) :
          built[i].data.static # None /\ dir = post_static_dir(mode, built[i])
    \/ \E k \in 1..Len(proj_builds) :
          /\ proj_builds[k].data.static # None
          /\ dir = proj_static_dir(mode, proj_builds[k])

\* C12: when a run of the entry point has returned, every file and every
\* copied directory of the output tree was made by this run from the
\* sources this run read, whatever tree earlier runs (successful or
\* failed, on other sources) left behind: nothing of an earlier build
\* survives.
C12_NothingSurvivesRebuild ==
    pc = "done" =>
        /\ \A path \in DOMAIN fs : FromThisRun(path)
        /\ \A dir \in DOMAIN copied : CopiedThisRun(dir)
        /\ \A d \in dirs :
              \/ IsPrefix(d, site_build_dir(mode))
              \/ \E path \in DOMAIN fs : IsPrefix(d, path)
              \/ \E dir \in DOMAIN copied : IsPrefix(d, dir)

\* A run has returned on a tree an earlier run had left, with posts and
\* projects built.
C12_Witness ==
    /\ pc = "done"
    /\ rebuilt
    /\ mode = "production"
    /\ Len(built) > 0
    /\ Len(proj_builds) > 0

\* The content directory a command names, and the kind of the command.
CommandKind(c) == IF c.cmd = "n_post" THEN "post" ELSE "proj"

CommandPath(c) == content_path(CommandKind(c), c.name)

\* The command fails and leaves the working tree as it is.
FailsUnchanged(c) == c.raised # "" /\ UNCHANGED << src_dirs, src_files >>

\* The command makes the content directory, an empty static directory in
\* it and the descriptor, a copy of the template, and nothing else.
MakesContent(c) ==
    /\ c.raised = ""
    /\ src_dirs' = src_dirs \cup { CommandPath(c), CommandPath(c) \o << "static" >> }
    /\ DOMAIN src_files' =
          DOMAIN src_files \cup { CommandPath(c) \o << kind_descriptor(CommandKind(c)) >> }
    /\ \A path \in DOMAIN src_files : src_files'[path] = src_files[path]
    /\ src_files'[CommandPath(c) \o << kind_descriptor(CommandKind(c)) >>]
          = [kind |-> "template",
             of |-> TEMPLATE_DIR \o << kind_template(CommandKind(c)) >>]
    /\ \A path \in DOMAIN src_files' :
          ~ IsPrefix(CommandPath(c) \o << "static" >>, path)

\* C13 as stated: a run of n_post or n_proj on a name whose content
\* directory exists fails and leaves the working tree unchanged, and on any
\* other name makes the directory, its empty static directory and the
\* descriptor copied from the template.
C13_ScaffoldAsStated ==
    [][cli'.cmd # "" =>
          IF exists(CommandPath(cli'))
          THEN FailsUnchanged(cli')
          ELSE MakesContent(cli')]_vars

\* C13, amended: a run of n_post or n_proj on a name whose content
\* directory exists fails and leaves the working tree unchanged; so does a
\* run while the directory the content directories are kept in (blog_posts,
\* projects) is missing; any other run makes the directory, its empty
\* static directory and the descriptor copied from the template.
C13_ScaffoldNeverModifies ==
    [][cli'.cmd # "" =>
          IF exists(CommandPath(cli'))
          THEN FailsUnchanged(cli')
          ELSE IF ~ exists(kind_dir(CommandKind(cli')))
          THEN FailsUnchanged(cli')
          ELSE MakesContent(cli')]_vars

\* A command was refused on a content directory the author had worked in,
\* which still holds the author's descriptor and figure.
C13_Witness ==
    /\ cli.cmd = "n_post"
    /\ cli.raised = "ValueError"
    /\ LET path == CommandPath(cli)
       IN  /\ path \o << "post.json" >> \in DOMAIN src_files
           /\ src_files[path \o << "post.json" >>].kind = "authored"
           /\ path \o << "static", "fig.png" >> \in DOMAIN src_files
    /\ \E name \in ScaffoldNames :
          /\ content_path("proj", name) \o << "proj.json" >> \in DOMAIN src_files
          /\ src_files[content_path("proj", name) \o << "proj.json" >>].kind = "template"

\* build_blog has returned normally: the entry point is in build_projects
\* or past it.
BuildBlogReturned ==
    pc \in { "collect_projects", "build_project_page_html", "write_project",
             "copy_project_files", "build_projects_page", "done" }

\* This run wrote the listing page blog.html in the site build directory.
BlogPageWritten ==
    /\ site_build_dir(mode) \o << "blog.html" >> \in DOMAIN fs
    /\ fs[site_build_dir(mode) \o << "blog.html" >>].kind = "blog"
    /\ \E i \in EventsOf("build_blog_page") :
          log[i].path = site_build_dir(mode) \o << "blog.html" >>

\* C14 as stated: every build_blog run that has returned normally has
\* written blog.html in the site build directory, the run that found no
\* post descriptor included.
C14_BlogPageAlwaysWritten == BuildBlogReturned => BlogPageWritten

\* C14, amended: a build_blog run that has returned normally has written
\* blog.html in the site build directory if it found a post descriptor; the
\* run that found none has returned an empty list without writing blog.html,
\* and the build directory holds none.
C14_BlogPageWrittenIfPosts ==
    BuildBlogReturned =>
        IF Len(posts) > 0
        THEN BlogPageWritten
        ELSE /\ blog_posts = << >>
             /\ EventsOf("build_blog_page") = { }
             /\ site_build_dir(mode) \o << "blog.html" >> \notin DOMAIN fs

\* A build that found no post, and two projects, has returned without
\* blog.html.
C14_Witness ==
    /\ pc = "done"
    /\ Len(posts) = 0
    /\ EventsOf("write_project") # { }
    /\ Len(proj_builds) > 0
    /\ site_build_dir(mode) \o << "blog.html" >> \notin DOMAIN fs

\* The calls of the log that write a page.
PageWrites ==
    { i \in 1..Len(log) :
        log[i].op \in { "build_post_page", "build_blog_page", "build_tags_pages",
                        "write_project", "build_projects_page" } }

\* C15: in a build that has returned with posts built, no tag page was
\* written to a path another page was written to, before or after, nor
\* over a page of the site source directory; blog.html holds the listing
\* of all posts, index.html the static index page, and <tag>.html, for every
\* tag a post carries (tags named blog, index or projects too), the listing
\* of the posts carrying it.
C15_NoPageOverwritten ==
    pc = "done" /\ Len(built) > 0 =>
        /\ \A i \in EventsOf("build_tags_pages"), j \in PageWrites :
              i # j => log[i].path # log[j].path
        /\ \A i \in EventsOf("build_tags_pages"), page \in SitePages :
              log[i].path # site_build_dir(mode) \o << page >>
        /\ fs[site_build_dir(mode) \o << "blog.html" >>]
              = blog_page_text(mode, built, "Blog")
        /\ fs[site_build_dir(mode) \o << "index.html" >>]
              = page_text(mode, "index.html")
        /\ \A tag \in tags_set(built) :
              fs[site_build_dir(mode) \o << tag \o ".html" >>]
                  = blog_page_text(mode, SelectPosts(built, tag), tag \o " Blog Posts")

====
